---- MODULE Spec2Model ----
(***************************************************************************)
(* AI Newsletter Bot (src/src/bot.py, src/src/main.py, src/src/config.py). *)
(*                                                                         *)
(* The bot is a single-run pipeline: TavilyCollector.search_news fans out  *)
(* one search request per interest and joins them, GPTProcessor scores the *)
(* batch and asks for the newsletter, ResendEmailer delivers it, and       *)
(* AINewsletterBot / main wire the stages together.                        *)
(*                                                                         *)
(* Data representation.                                                    *)
(*   - A Python dict is a TLA+ function whose DOMAIN is the set of keys    *)
(*     present (a record); Get is dict.get, Put is d[k] = v.               *)
(*   - A string that the code takes apart (a URL, a network location) is   *)
(*     the sequence of its pieces, so that concatenation is \o, a prefix   *)
(*     test is a test on the head, and a slice drops pieces.               *)
(*   - Scores are integers (tenths of a point).                            *)
(***************************************************************************)
EXTENDS Integers, Sequences, FiniteSets, TLC

VARIABLES
    pc,                    \* position of the running call
    api,                   \* the outermost call: which public entry was invoked
    trusted_news_domains,  \* TavilyCollector.trusted_news_domains (<<>>: None or [])
    from_email,            \* ResendEmailer.from_email ("" : unset)
    to_emails,             \* ResendEmailer.to_emails
    responses,             \* per query: in flight, or what the search provider answered
    results_list,          \* per query: what _fetch_for_query returned (asyncio.gather slot)
    order,                 \* queries in the order their requests completed
    all_results,           \* search_news: the merged list before filtering
    filtered,              \* search_news: the list after _filter_by_domain
    articles,              \* the article list handed from stage to stage (mutated in place)
    limit,                 \* process_articles: limit
    score_reply,           \* the language model's answer to the scoring request
    top_articles,          \* process_articles: scored_articles[:limit]
    gen_reply,             \* the language model's answer to the generation request
    newsletter_data,       \* the content handed to the emailer / preview
    llm_calls,             \* chat-completion requests issued so far, in order
    deliveries,            \* calls of resend.Emails.send so far: payload and result
    outcome,               \* how the outermost call ended: returned value or raised
    exit_status,           \* main.py: how the process ended
    given,                 \* history: the article list as process_articles received it
    invoked                \* history: the stage methods invoked so far, in order

vars == << pc, api, trusted_news_domains, from_email, to_emails, responses,
           results_list, order, all_results, filtered, articles, limit,
           score_reply, top_articles, gen_reply, newsletter_data, llm_calls,
           deliveries, outcome, exit_status, given, invoked >>

configVars    == << trusted_news_domains, from_email, to_emails >>
collectorVars == << responses, results_list, order, all_results, filtered >>
processorVars == << limit, score_reply, top_articles, gen_reply, llm_calls,
                    given >>

-----------------------------------------------------------------------------
(* Bounds of the model                                                     *)

\* longest article list given to the collector's list functions
MaxLen == 3

\* most results one search response carries
MaxResults == 2

\* longest article list given to process_articles
MaxArticles == 3

\* most entries in the "scores" list of a scoring reply
MaxEntries == 3

-----------------------------------------------------------------------------
(* Program constants                                                       *)

\* the number of queries: one per interest of the default AI_INTERESTS,
\* 'LLMs, AI agents, AI tools'
NQueries == 3

-----------------------------------------------------------------------------
(* Python values                                                           *)

\* dict.get(k, default)
Get(d, k, default) == IF k \in DOMAIN d THEN d[k] ELSE default

\* d[k] = v
Put(d, k, v) == [x \in (DOMAIN d) \cup {k} |-> IF x = k THEN v ELSE d[x]]

\* {} : the empty dict
EmptyDict == << >>

\* all sequences over S of length at most n
SeqUpTo(S, n) == UNION { [1..k -> S] : k \in 0..n }

-----------------------------------------------------------------------------
(* URLs.  A URL string is the sequence of its pieces, e.g.                  *)
(*   "https://www.example.com:443/x" is                                     *)
(*   << "https://", "www.", "example.com", ":443", "/x" >>.                 *)

SchemePieces == { "https://" }
PortPieces   == { ":443" }
PathPieces   == { "/x", "/y", "/n" }

\* urllib.parse.urlparse(url).netloc : what stands between "//" and the
\* next "/" (host and port alike); empty when the URL has no scheme.
RECURSIVE UpToPath(_)
UpToPath(s) ==
    IF s = << >> \/ Head(s) \in PathPieces THEN << >>
    ELSE << Head(s) >> \o UpToPath(Tail(s))

Netloc(url) ==
    IF url # << >> /\ Head(url) \in SchemePieces THEN UpToPath(Tail(url))
    ELSE << >>

\* the host name of a network location: the location without its port
Hostname(netloc) == SelectSeq(netloc, LAMBDA p : p \notin PortPieces)

\* if domain.startswith('www.'): domain = domain[4:]
StripWww(domain) ==
    IF domain # << >> /\ Head(domain) = "www." THEN Tail(domain) ELSE domain

\* x in list
InList(x, list) == \E i \in 1..Len(list) : list[i] = x

-----------------------------------------------------------------------------
(* TavilyCollector                                                         *)

\* url = article.get('url'); if url: ...   (None and '' are both falsy)
HasUrl(article) == "url" \in DOMAIN article /\ article.url # << >>

\* _deduplicate: the loop over articles, carrying seen_urls and unique_articles
RECURSIVE DeduplicateLoop(_, _, _)
DeduplicateLoop(rest, seen_urls, unique_articles) ==
    IF rest = << >> THEN unique_articles
    ELSE LET article == Head(rest) IN
         IF HasUrl(article) /\ article.url \notin seen_urls
         THEN DeduplicateLoop(Tail(rest), seen_urls \cup { article.url },
                              Append(unique_articles, article))
         ELSE DeduplicateLoop(Tail(rest), seen_urls, unique_articles)

\* a plausible slip: the url is never recorded as seen
DeduplicateForgetful(list) ==
    SelectSeq(list, HasUrl)

Deduplicate(list) == DeduplicateLoop(list, {}, << >>)

\* the domain _filter_by_domain compares with the trusted list
DomainOf(url) == StripWww(Netloc(url))

\* a plausible slip: the 'www.' prefix is not removed
FilterKeepsNoWww(article, trusted) ==
    HasUrl(article) /\ InList(Netloc(article.url), trusted)

\* _filter_by_domain: the test of the loop body
FilterKeeps(article, trusted) ==
    HasUrl(article) /\ InList(DomainOf(article.url), trusted)

FilterByDomain(list, trusted) ==
    IF trusted = << >> THEN list
    ELSE SelectSeq(list, LAMBDA a : FilterKeeps(a, trusted))

-----------------------------------------------------------------------------
(* Inputs of the collector's list functions                                *)

Url(pieces) == << "https://" >> \o pieces

ListArticles ==
    { [url |-> Url(<< "example.com", "/x" >>),           title |-> "a"],
      [url |-> Url(<< "example.com", "/x" >>),           title |-> "b"],
      [url |-> Url(<< "www.", "example.com", "/x" >>),   title |-> "c"],
      [url |-> Url(<< "other.com", "/y" >>),             title |-> "d"],
      [url |-> Url(<< "example.com", ":443", "/x" >>),   title |-> "e"],
      [url |-> << >>,                                    title |-> "f"],
      [title |-> "g"] }

TrustedChoices ==
    { << >>,
      << << "example.com" >> >>,
      << << "other.com" >>, << "example.com" >> >>,
      << << "www.", "example.com" >> >> }

Idle ==
    /\ api = "none"
    /\ from_email = ""
    /\ to_emails = << >>
    /\ responses = << >>
    /\ results_list = << >>
    /\ order = << >>
    /\ limit = 0
    /\ score_reply = EmptyDict
    /\ top_articles = << >>
    /\ gen_reply = EmptyDict
    /\ newsletter_data = EmptyDict
    /\ llm_calls = << >>
    /\ deliveries = << >>
    /\ outcome = [kind |-> "none"]
    /\ exit_status = "running"
    /\ given = << >>
    /\ invoked = << >>

-----------------------------------------------------------------------------
(* The list functions on their own: search_news lines 56-58 applied to an   *)
(* arbitrary merged list                                                    *)

InitLists ==
    /\ Idle
    /\ pc = "merged"
    /\ trusted_news_domains \in TrustedChoices
    /\ all_results \in SeqUpTo(ListArticles, MaxLen)
    /\ filtered = << >>
    /\ articles = << >>

CallFilterByDomain ==
    /\ pc = "merged"
    /\ filtered' = FilterByDomain(all_results, trusted_news_domains)
    /\ pc' = "filtered"
    /\ UNCHANGED << api, trusted_news_domains, from_email, to_emails, responses,
                    results_list, order, all_results, articles, processorVars,
                    newsletter_data, deliveries, outcome, exit_status, invoked >>

CallDeduplicate ==
    /\ pc = "filtered"
    /\ articles' = Deduplicate(filtered)
    /\ pc' = "deduplicated"
    /\ UNCHANGED << api, trusted_news_domains, from_email, to_emails, responses,
                    results_list, order, all_results, filtered, processorVars,
                    newsletter_data, deliveries, outcome, exit_status, invoked >>

NextLists == CallFilterByDomain \/ CallDeduplicate

SpecLists == InitLists /\ [][NextLists]_vars

-----------------------------------------------------------------------------
(* JSON values whose type the code depends on carry their type             *)

JInt(n)      == [t |-> "int", n |-> n]
JBool(b)     == [t |-> "bool", b |-> b]
JFloat(tenths) == [t |-> "float", tenths |-> tenths]   \* the number tenths/10
JStr(s)      == [t |-> "str", s |-> s]      \* s: the characters
JNull        == [t |-> "null"]
JList(items) == [t |-> "list", items |-> items]
JDict(d)     == [t |-> "dict", d |-> d]
JOther       == [t |-> "other"]

Min(a, b) == IF a <= b THEN a ELSE b
Max(a, b) == IF a >= b THEN a ELSE b

\* list[:n]
SliceTo(list, n) ==
    IF n >= 0 THEN SubSeq(list, 1, Min(n, Len(list)))
    ELSE SubSeq(list, 1, Max(0, Len(list) + n))

-----------------------------------------------------------------------------
(* GPTProcessor._score_articles                                            *)

\* the sort key: x.get('score', 0)
SortKey(article) == Get(article, "score", 0)

\* a plausible slip: among equal scores the later article comes first
\* (sorting the reversed list, or an unstable sort)
RECURSIVE InsertDescUnstable(_, _)
InsertDescUnstable(sorted, x) ==
    IF sorted = << >> THEN << x >>
    ELSE IF SortKey(Head(sorted)) > SortKey(x)
         THEN << Head(sorted) >> \o InsertDescUnstable(Tail(sorted), x)
         ELSE << x >> \o sorted

\* x goes behind every article whose key is at least its own
RECURSIVE InsertDesc(_, _)
InsertDesc(sorted, x) ==
    IF sorted = << >> THEN << x >>
    ELSE IF SortKey(Head(sorted)) >= SortKey(x)
         THEN << Head(sorted) >> \o InsertDesc(Tail(sorted), x)
         ELSE << x >> \o sorted

\* articles.sort(key=lambda x: x.get('score', 0), reverse=True): list.sort is
\* stable, and reverse=True keeps the original order among equal keys
RECURSIVE SortDescFrom(_, _)
SortDescFrom(list, sorted) ==
    IF list = << >> THEN sorted
    ELSE SortDescFrom(Tail(list), InsertDesc(sorted, Head(list)))

SortDesc(list) == SortDescFrom(list, << >>)

\* idx as Python compares and indexes with it: an int is itself, True and
\* False are 1 and 0
AsIndex(idx) == IF idx.t = "bool" THEN (IF idx.b THEN 1 ELSE 0) ELSE idx.n

\* The loop over scores (lines 192-197).  It mutates the articles in place.
\* By the type of idx:
\*   an int, a bool : '0 <= idx < len(articles)' decides; articles[idx] is
\*                    written when it holds, the entry is skipped otherwise
\*   a float        : the comparison decides as well, but articles[idx]
\*                    raises TypeError (a list index must be an integer), so
\*                    a float in range raises and one out of range is skipped
\*   anything else  : '0 <= idx' raises TypeError
\* An exception ends the loop with the earlier entries already applied.
RECURSIVE ScoreLoop(_, _)
ScoreLoop(arts, scores) ==
    IF scores = << >> THEN [articles |-> arts, raised |-> FALSE]
    ELSE LET score_info == Head(scores) IN
         IF score_info.t = "dict" /\ "id" \in DOMAIN score_info.d
         THEN LET idx == score_info.d.id IN
              IF idx.t = "float"
              THEN IF 0 <= idx.tenths /\ idx.tenths < 10 * Len(arts)
                   THEN [articles |-> arts, raised |-> TRUE]
                   ELSE ScoreLoop(arts, Tail(scores))
              ELSE IF idx.t \notin { "int", "bool" }
              THEN [articles |-> arts, raised |-> TRUE]
              ELSE IF 0 <= AsIndex(idx) /\ AsIndex(idx) < Len(arts)
                   THEN ScoreLoop(
                          [arts EXCEPT ![AsIndex(idx) + 1] =
                              Put(Put(@, "score", Get(score_info.d, "score", 0)),
                                  "reason", Get(score_info.d, "reason", ""))],
                          Tail(scores))
                   ELSE ScoreLoop(arts, Tail(scores))
         ELSE ScoreLoop(arts, Tail(scores))

\* What the language model can answer to the scoring request:
\*   error     : the chat-completion call raises
\*   notjson   : json.loads cannot parse the content
\*   notobject : the content is JSON but no object; scores_data.get raises
\*   object    : a JSON object, data; its "scores" is any JSON value
\* _score_articles returns the list it was given in each case: sorted when
\* the try block ran to its end, as the exception left it otherwise.
\* 'for score_info in scores' (line 192) by the type of scores:
\*   a list             : the entries, ScoreLoop
\*   an object, a string: the loop runs over the keys / the characters, which
\*                        are strings, applies nothing, and line 199 sorts
\*   null, a number     : not iterable, TypeError, the handler returns the
\*                        list untouched
ScoreArticles(arts, reply) ==
    IF reply.kind # "object" THEN arts
    ELSE LET scores == Get(reply.data, "scores", JList(<< >>)) IN
         IF scores.t \in { "dict", "str" } THEN SortDesc(arts)
         ELSE IF scores.t # "list" THEN arts
         ELSE LET done == ScoreLoop(arts, scores.items) IN
              IF done.raised THEN done.articles
              ELSE SortDesc(done.articles)

-----------------------------------------------------------------------------
(* GPTProcessor._generate_newsletter                                       *)

\* What the language model can answer to the generation request: as for the
\* scoring request.  For a JSON value that is no object the item assignment
\* of line 237 raises TypeError, which the handler turns into {}.
\* a plausible slip: the reply's object is not checked at all and a failed
\* call yields an object holding only the articles
GenerateNewsletterLenient(top, reply) ==
    IF reply.kind # "object" THEN [original_articles |-> top]
    ELSE Put(reply.data, "original_articles", top)

GenerateNewsletter(top, reply) ==
    IF reply.kind # "object" THEN EmptyDict
    ELSE Put(reply.data, "original_articles", top)

-----------------------------------------------------------------------------
(* ResendEmailer                                                           *)

\* NEWSLETTER_NAME, by default
NewsletterName == "AI Daily Brief"

\* f"{self.newsletter_name} - {datetime.now().strftime('%B %d, %Y')}"
Subject == << NewsletterName, " - ", "today" >>

\* data.get('top_stories', []), which both renderers iterate
StoriesOf(data) == Get(data, "top_stories", JList(<< >>))

\* 'for story in data.get('top_stories', [])' with story.get(...) in its body
\* (lines 289-296, 325-328, 382-386), by the type of top_stories:
\*   a list            : every item must be an object, story.get raises
\*                       AttributeError on anything else
\*   an object, a string: the loop runs over the keys / the characters, which
\*                       are strings: AttributeError unless there is none
\*   null, a number    : not iterable, TypeError
Renders(data) ==
    LET stories == StoriesOf(data) IN
    \/ stories.t = "list"
         /\ \A i \in 1..Len(stories.items) : stories.items[i].t = "dict"
    \/ stories.t = "dict" /\ DOMAIN stories.d = {}
    \/ stories.t = "str" /\ stories.s = << >>

\* the stories the loop yields, for content that renders
StoryItems(data) ==
    IF StoriesOf(data).t = "list" THEN StoriesOf(data).items ELSE << >>

\* one story block of the HTML body
StoryHtml(story) ==
    [headline |-> Get(story.d, "headline", "Untitled"),
     summary  |-> Get(story.d, "summary", "No summary available."),
     link     |-> Get(story.d, "link", "#")]

\* one story of the text body
StoryText(story) ==
    [headline |-> Get(story.d, "headline", "Untitled"),
     summary  |-> Get(story.d, "summary", "N/A"),
     link     |-> Get(story.d, "link", "#")]

\* The template file is outside the program: it is present and renders, it
\* is missing (FileNotFoundError), or template.format raises.
TemplateStates == { "present", "missing", "broken" }

\* _generate_html, for content that renders
GenerateHtml(data, template) ==
    IF template = "missing"
    THEN [kind |-> "literal",
          text |-> "Template not found. Please check your installation."]
    ELSE IF template = "broken"
    THEN [kind |-> "literal", text |-> "Error rendering newsletter template."]
    ELSE [kind |-> "page",
          newsletter_name |-> NewsletterName,
          opening_hook |-> Get(data, "opening_hook",
                               "Here is your daily AI briefing."),
          stories_html |-> [i \in 1..Len(StoryItems(data)) |->
                               StoryHtml(StoryItems(data)[i])],
          tool_of_the_day |-> Get(data, "tool_of_the_day",
                  "Explore new AI tools to boost your productivity."),
          closing_thought |-> Get(data, "closing_thought",
                  "The field of AI continues to evolve at a breathtaking pace. Stay curious!")]

\* _generate_text_version, for content that renders
GenerateTextVersion(data) ==
    [newsletter_name |-> NewsletterName,
     opening_hook |-> Get(data, "opening_hook", "Here is your daily AI briefing."),
     stories |-> [i \in 1..Len(StoryItems(data)) |->
                     StoryText(StoryItems(data)[i])],
     tool_of_the_day |-> Get(data, "tool_of_the_day", "N/A"),
     closing_thought |-> Get(data, "closing_thought", "N/A")]

\* the argument of resend.Emails.send
Payload(sender, recipients, data, template) ==
    [from    |-> sender,
     to      |-> recipients,
     subject |-> Subject,
     html    |-> GenerateHtml(data, template),
     text    |-> GenerateTextVersion(data)]

\* a plausible slip: the recipient list is not checked
SendRefusedNoRecipientCheck(sender, recipients, data) ==
    \/ sender = ""
    \/ data = EmptyDict \/ "top_stories" \notin DOMAIN data

\* send_newsletter lines 261-266: the two early 'return False'
SendRefused(sender, recipients, data) ==
    \/ sender = "" \/ recipients = << >>
    \/ data = EmptyDict \/ "top_stories" \notin DOMAIN data

-----------------------------------------------------------------------------
(* Control flow between the stages.  Each operator below is the rest of a   *)
(* step: what the code does, up to its next await or its return, once the   *)
(* value named in the parameter is known.  `who` is the outermost call.     *)

Returns(value) == [kind |-> "return", value |-> value]
Raises == [kind |-> "raise"]

\* send_newsletter has ended with `result` ("True", "False" or "raise").
\* run_newsletter returns the result; an exception is caught by its handler
\* (lines 362-364) and becomes False.
AfterSendNewsletter(who, result) ==
    /\ pc' = "done"
    /\ outcome' = IF who = "send_newsletter"
                  THEN (IF result = "raise" THEN Raises ELSE Returns(result))
                  ELSE Returns(IF result = "True" THEN "True" ELSE "False")

\* send_newsletter(data) up to the call of the provider; `inv` is the
\* history of invocations up to this one
EnterSendNewsletter(who, inv, data, template) ==
    /\ invoked' = Append(inv, "send_newsletter")
    /\ IF SendRefused(from_email, to_emails, data)
       THEN /\ UNCHANGED deliveries
            /\ AfterSendNewsletter(who, "False")
       ELSE IF ~Renders(data)
       THEN /\ UNCHANGED deliveries
            /\ AfterSendNewsletter(who, "raise")
       ELSE /\ deliveries' = Append(deliveries,
                   [payload |-> Payload(from_email, to_emails, data, template),
                    result  |-> "pending"])
            /\ pc' = "sending"
            /\ UNCHANGED outcome

\* a plausible slip: run_newsletter sends whatever the processor returned
AfterProcessArticlesNoCheck(who, inv, data, template) ==
    /\ newsletter_data' = data
    /\ IF who = "process_articles"
       THEN /\ pc' = "done" /\ outcome' = Returns("dict")
            /\ invoked' = inv /\ UNCHANGED deliveries
       ELSE IF who = "run_newsletter"
       THEN EnterSendNewsletter(who, inv, data, template)
       ELSE /\ pc' = "done"
            /\ outcome' = IF data = EmptyDict \/ Renders(data)
                          THEN Returns("None") ELSE Raises
            /\ invoked' = inv /\ UNCHANGED deliveries

\* process_articles has returned `data`.
\*   run_newsletter (lines 352-356): empty content ends the run with False,
\*     anything else goes to the emailer.
\*   test_run (lines 375-394): empty content ends the run; anything else is
\*     printed, and the loop over top_stories raises as the renderers do.
AfterProcessArticles(who, inv, data, template) ==
    /\ newsletter_data' = data
    /\ IF who = "process_articles"
       THEN /\ pc' = "done" /\ outcome' = Returns("dict")
            /\ invoked' = inv /\ UNCHANGED deliveries
       ELSE IF who = "run_newsletter"
       THEN IF data = EmptyDict
            THEN /\ pc' = "done" /\ outcome' = Returns("False")
                 /\ invoked' = inv /\ UNCHANGED deliveries
            ELSE EnterSendNewsletter(who, inv, data, template)
       ELSE /\ pc' = "done"
            /\ outcome' = IF data = EmptyDict \/ Renders(data)
                          THEN Returns("None") ELSE Raises
            /\ invoked' = inv /\ UNCHANGED deliveries

\* limit=5 of run_newsletter and test_run, and the default of process_articles
DefaultLimit == 5

\* article.get('raw_content', '')[:4000] (line 165): the value under
\* raw_content, when the key is there, must take a slice; null, a number or
\* an object raises TypeError
Sliceable(article) ==
    \/ "raw_content" \notin DOMAIN article
    \/ article.raw_content.t \in { "str", "list" }

\* the prompt of lines 162-167 is built outside the try block of line 183
PromptRaises(arts) == \E i \in 1..Len(arts) : ~Sliceable(arts[i])

\* process_articles has raised.  run_newsletter's handler (lines 362-364)
\* turns the exception into False; test_run has no handler.
RaiseInProcessArticles(who, inv) ==
    /\ pc' = "done"
    /\ outcome' = IF who = "run_newsletter" THEN Returns("False") ELSE Raises
    /\ invoked' = inv
    /\ UNCHANGED << newsletter_data, deliveries >>

\* process_articles(arts, lim) up to the scoring request (lines 147-150,
\* the prompt of lines 162-167 and the call of line 184): an empty list
\* returns {} at once, an article whose raw_content takes no slice makes the
\* call raise before any request
EnterProcessArticles(who, inv, arts, lim) ==
    /\ articles' = arts
    /\ given' = arts
    /\ limit' = lim
    /\ UNCHANGED << score_reply, top_articles, gen_reply >>
    /\ IF arts = << >>
       THEN /\ UNCHANGED llm_calls
            /\ AfterProcessArticles(who, Append(inv, "process_articles"),
                                    EmptyDict, "present")
       ELSE IF PromptRaises(arts)
       THEN /\ UNCHANGED llm_calls
            /\ RaiseInProcessArticles(who, Append(inv, "process_articles"))
       ELSE /\ llm_calls' = Append(llm_calls, "score")
            /\ pc' = "scoring"
            /\ invoked' = Append(inv, "process_articles")
            /\ UNCHANGED << outcome, deliveries, newsletter_data >>

\* a plausible slip: the orchestrator hands an empty batch on to the processor
AfterSearchNewsNoCheck(who, batch) ==
    IF who = "search_news"
    THEN /\ articles' = batch
         /\ pc' = "done" /\ outcome' = Returns("list")
         /\ UNCHANGED << processorVars, newsletter_data, deliveries, invoked >>
    ELSE EnterProcessArticles(who, invoked, batch, DefaultLimit)

\* search_news has returned `batch`.  run_newsletter (lines 347-351) and
\* test_run (lines 370-374) stop on an empty batch and otherwise call
\* process_articles(articles, limit=5).
AfterSearchNews(who, batch) ==
    IF who = "search_news"
    THEN /\ articles' = batch
         /\ pc' = "done" /\ outcome' = Returns("list")
         /\ UNCHANGED << processorVars, newsletter_data, deliveries, invoked >>
    ELSE IF batch = << >>
    THEN /\ articles' = batch
         /\ pc' = "done"
         /\ outcome' = Returns(IF who = "run_newsletter" THEN "False" ELSE "None")
         /\ UNCHANGED << processorVars, newsletter_data, deliveries, invoked >>
    ELSE EnterProcessArticles(who, invoked, batch, DefaultLimit)

-----------------------------------------------------------------------------
(* TavilyCollector.search_news: the concurrent requests and their join     *)

Queries == 1..NQueries

InFlight == [kind |-> "inflight"]

\* What the search provider can answer to one request:
\*   transport : client.post raises (connection error, timeout)
\*   status    : a non-2xx status; raise_for_status raises HTTPStatusError
\*   notjson   : a 2xx answer whose body response.json() cannot parse
\*   ok        : a 2xx answer with a JSON object, data
Responses(articleSet) ==
    { [kind |-> "transport"], [kind |-> "status"], [kind |-> "notjson"] }
    \cup { [kind |-> "ok", data |-> EmptyDict] }
    \cup { [kind |-> "ok", data |-> [results |-> r]] :
               r \in SeqUpTo(articleSet, MaxResults) }

\* a plausible slip: a failed request hands back what it had of a previous
\* answer instead of nothing (no 'return []' after the handlers)
FetchReturnStale(resp) ==
    IF resp.kind = "ok" THEN Get(resp.data, "results", << >>)
    ELSE << [title |-> "stale"] >>

\* _fetch_for_query: the value the task returns for a provider answer.
\* Both handlers log and fall through to 'return []'.
FetchReturn(resp) ==
    IF resp.kind = "ok" THEN Get(resp.data, "results", << >>)
    ELSE << >>

\* for results in results_list: all_results.extend(results)
RECURSIVE Extend(_, _)
Extend(slots, q) ==
    IF q > NQueries THEN << >> ELSE slots[q] \o Extend(slots, q + 1)

\* a plausible slip: the results are taken as the requests complete
\* (asyncio.as_completed) instead of in task order
RECURSIVE ExtendInOrder(_, _)
ExtendInOrder(slots, done) ==
    IF done = << >> THEN << >>
    ELSE slots[Head(done)] \o ExtendInOrder(slots, Tail(done))

MergeAsCompleted(slots, done) == ExtendInOrder(slots, done)

\* results_list = await asyncio.gather(*tasks), merged in task order
Merge(slots, done) == Extend(slots, 1)

\* a plausible slip: the join returns as soon as one request has completed
JoinedFirst(resps) == \E q \in Queries : resps[q] # InFlight

\* asyncio.gather returns when every task has returned
Joined(resps) == \A q \in Queries : resps[q] # InFlight

\* search_news is called, by its caller `who` (search_news itself when it is
\* called directly): one task per query is started
CallSearchNews(who) ==
    /\ pc = "ready"
    /\ api' = who
    /\ pc' = "fetching"
    /\ invoked' = Append(invoked, "search_news")
    /\ responses' = [q \in Queries |-> InFlight]
    /\ results_list' = [q \in Queries |-> << >>]
    /\ order' = << >>
    /\ UNCHANGED << configVars, all_results, filtered, articles, processorVars,
                    newsletter_data, deliveries, outcome, exit_status >>

\* one request completes, in any order, with any answer of the provider
FetchForQuery(q, resp) ==
    /\ pc = "fetching"
    /\ responses[q] = InFlight
    /\ responses' = [responses EXCEPT ![q] = resp]
    /\ results_list' = [results_list EXCEPT ![q] = FetchReturn(resp)]
    /\ order' = Append(order, q)
    /\ UNCHANGED << pc, api, configVars, all_results, filtered, articles,
                    processorVars, newsletter_data, deliveries, outcome,
                    exit_status, invoked >>

\* the join (lines 51-53): asyncio.gather has returned and the per-query
\* results are merged into all_results.  The end of the async-with block
\* then awaits the client's __aexit__, so search_news is suspended here with
\* the merge done and the filter not yet applied.
SearchNewsJoin ==
    /\ pc = "fetching"
    /\ Joined(responses)
    /\ all_results' = Merge(results_list, order)
    /\ pc' = "closing"
    /\ UNCHANGED << api, configVars, responses, results_list, order, filtered,
                    articles, processorVars, newsletter_data, deliveries,
                    outcome, exit_status, invoked >>

\* a plausible slip: the filtered list is not assigned back to all_results,
\* so the batch is the deduplicated merge, unfiltered
SearchNewsReturnUnassigned ==
    /\ pc = "closing"
    /\ LET kept == FilterByDomain(all_results, trusted_news_domains)
       IN  /\ filtered' = kept
           /\ AfterSearchNews(api, Deduplicate(all_results))
    /\ UNCHANGED << api, configVars, responses, results_list, order,
                    all_results, exit_status >>

\* the client is closed (lines 56-58): the merge is filtered by the trusted
\* domains as they are now, deduplicated and returned
SearchNewsReturn ==
    /\ pc = "closing"
    /\ LET kept == FilterByDomain(all_results, trusted_news_domains)
       IN  /\ filtered' = kept
           /\ AfterSearchNews(api, Deduplicate(kept))
    /\ UNCHANGED << api, configVars, responses, results_list, order,
                    all_results, exit_status >>

-----------------------------------------------------------------------------
(* The collector on its own                                                *)

CollectorArticles ==
    { [url |-> Url(<< "example.com", "/x" >>), title |-> "a"],
      [url |-> Url(<< "other.com", "/y" >>),   title |-> "d"] }

CollectorTrusted == { << >>, << << "example.com" >> >> }

InitCollector ==
    /\ Idle
    /\ pc = "ready"
    /\ trusted_news_domains \in CollectorTrusted
    /\ all_results = << >>
    /\ filtered = << >>
    /\ articles = << >>

NextCollector ==
    \/ CallSearchNews("search_news")
    \/ /\ pc = "fetching"
       /\ \E q \in Queries : \E resp \in Responses(CollectorArticles) :
              FetchForQuery(q, resp)
    \/ SearchNewsJoin
    \/ SearchNewsReturn

SpecCollector == InitCollector /\ [][NextCollector]_vars

-----------------------------------------------------------------------------
(* GPTProcessor.process_articles, step by step                             *)

\* a plausible slip: the slice keeps one article too many
TopArticlesOffByOne(scored, lim) == SliceTo(scored, lim + 1)

\* top_articles = scored_articles[:limit]
TopArticles(scored, lim) == SliceTo(scored, lim)

\* process_articles is called directly
CallProcessArticles(arts, lim) ==
    /\ pc = "ready"
    /\ api' = "process_articles"
    /\ EnterProcessArticles("process_articles", invoked, arts, lim)
    /\ UNCHANGED << configVars, collectorVars, exit_status >>

\* the scoring request is answered: lines 189-203, then lines 151-157 up to
\* the generation request
ScoreReply(reply) ==
    /\ pc = "scoring"
    /\ LET scored == ScoreArticles(articles, reply)
           top    == TopArticles(scored, limit)
       IN  /\ articles' = scored
           /\ score_reply' = reply
           /\ top_articles' = top
           /\ IF top = << >>
              THEN /\ UNCHANGED llm_calls
                   /\ AfterProcessArticles(api, invoked, EmptyDict, "present")
              ELSE /\ llm_calls' = Append(llm_calls, "generate")
                   /\ pc' = "generating"
                   /\ UNCHANGED << outcome, deliveries, newsletter_data,
                                   invoked >>
    /\ UNCHANGED << api, configVars, collectorVars, limit, gen_reply, given,
                    exit_status >>

\* the generation request is answered: lines 235-241, then the caller
GenReply(reply, template) ==
    /\ pc = "generating"
    /\ gen_reply' = reply
    /\ AfterProcessArticles(api, invoked,
                            GenerateNewsletter(top_articles, reply), template)
    /\ UNCHANGED << api, configVars, collectorVars, articles, limit,
                    score_reply, top_articles, llm_calls, given, exit_status >>

-----------------------------------------------------------------------------
(* ResendEmailer.send_newsletter, step by step                             *)

\* send_newsletter is called directly
CallSendNewsletter(data, template) ==
    /\ pc = "ready"
    /\ api' = "send_newsletter"
    /\ newsletter_data' = data
    /\ EnterSendNewsletter("send_newsletter", invoked, data, template)
    /\ UNCHANGED << configVars, collectorVars, articles, processorVars,
                    exit_status >>

\* What the provider does with the call: it accepts the message, it rejects
\* it, or it cannot be reached.  resend.Emails.send raises in the last two
\* cases and the handler of lines 282-284 returns False.
ProviderResults == { "accepted", "rejected", "unreachable" }

SendResult(result) ==
    /\ pc = "sending"
    /\ deliveries' = [deliveries EXCEPT ![Len(deliveries)].result = result]
    /\ AfterSendNewsletter(api, IF result = "accepted" THEN "True" ELSE "False")
    /\ UNCHANGED << api, configVars, collectorVars, articles, processorVars,
                    newsletter_data, exit_status, invoked >>

-----------------------------------------------------------------------------
(* AINewsletterBot and main                                                *)

\* main.py run as a script.  Its line 14, 'from src.bot import AINewsletterBot',
\* compiles bot.py, whose lines 163-165 hold an f-string literal broken over
\* three lines: SyntaxError, raised at module level before main() exists, so
\* no handler of main.py applies and the process ends with a traceback
\* whatever the environment holds.
\* (With that literal on one line the import succeeds and the environment
\* decides: a missing variable makes NewsletterConfig.from_env raise
\* ValueError, which main catches; a complete one reaches
\* AINewsletterBot(config), which reads config.trusted_news_domains, bot.py
\* line 338, a field NewsletterConfig does not define: AttributeError, which
\* neither handler catches.)
Main(env_complete) ==
    /\ pc = "start"
    /\ api' = "main"
    /\ pc' = "exited"
    /\ exit_status' = "uncaught exception"
    /\ UNCHANGED << configVars, collectorVars, articles, processorVars,
                    newsletter_data, deliveries, outcome, invoked >>

\* AINewsletterBot(config) for a config object that carries
\* trusted_news_domains.  The collector and the emailer raise ValueError
\* when their API key is not in the environment.
Construct(keys_set, trusted, sender, recipients) ==
    /\ pc = "start"
    /\ IF keys_set
       THEN /\ pc' = "ready"
            /\ trusted_news_domains' = trusted
            /\ from_email' = sender
            /\ to_emails' = recipients
            /\ UNCHANGED << api, outcome >>
       ELSE /\ pc' = "done"
            /\ api' = "construct"
            /\ outcome' = Raises
            /\ UNCHANGED configVars
    /\ UNCHANGED << collectorVars, articles, processorVars, newsletter_data,
                    deliveries, exit_status, invoked >>

-----------------------------------------------------------------------------
(* Replies of the language model                                           *)

ReplyFailures ==
    { [kind |-> "error"], [kind |-> "notjson"], [kind |-> "notobject"] }

Object(data) == [kind |-> "object", data |-> data]

Entry(id, score) == JDict([id |-> JInt(id), score |-> score, reason |-> "r"])

\* entries that follow the schema {"id", "score", "reason"}
SchemaEntries == { Entry(0, 9), Entry(1, 3), Entry(1, 9), Entry(2, 9) }

\* entries that do not: a string id, an id alone, and a bare number
OtherEntries ==
    { JDict([id |-> JStr(<< "0" >>), score |-> 9, reason |-> "r"]),
      JDict([id |-> JInt(0)]),
      JOther }

\* values of "scores" that are no list: null, a number, an object, a string
NonListScores == { JNull, JInt(7), JDict([a |-> JInt(1)]), JStr(<< "1", "2" >>) }

\* entries whose id is a number but no integer: true, false, 7.5 (out of
\* range for every list here) and 0.5 (in range, no index)
OddIdEntries ==
    { JDict([id |-> v, score |-> 9, reason |-> "r"]) :
          v \in { JBool(TRUE), JBool(FALSE), JFloat(75), JFloat(5) } }

ScoreReplies ==
    ReplyFailures
    \cup { Object([scores |-> JList(<< e >>)]) : e \in OddIdEntries }
    \cup { Object(EmptyDict) }
    \cup { Object([scores |-> v]) : v \in NonListScores }
    \cup { Object([scores |-> JList(items)]) :
               items \in SeqUpTo(SchemaEntries \cup OtherEntries, MaxEntries) }

Story == JDict([headline |-> "h", summary |-> "s", link |-> "l"])

FullContent ==
    [opening_hook |-> "hook", top_stories |-> JList(<< Story >>),
     tool_of_the_day |-> "tool", closing_thought |-> "closing"]

GenObjects ==
    { FullContent,
      [top_stories |-> JList(<< Story >>),
       tool_of_the_day |-> "tool", closing_thought |-> "closing"],
      [top_stories |-> JList(<< JDict([headline |-> "h"]) >>)],
      [opening_hook |-> "hook", tool_of_the_day |-> "tool",
       closing_thought |-> "closing"],
      EmptyDict,
      [opening_hook |-> "hook", top_stories |-> JNull,
       tool_of_the_day |-> "tool", closing_thought |-> "closing"],
      [top_stories |-> JDict(EmptyDict)],
      [top_stories |-> JDict([a |-> JInt(1)])],
      [top_stories |-> JStr(<< >>)],
      [top_stories |-> JList(<< Story, JOther >>)] }

GenReplies == ReplyFailures \cup { Object(d) : d \in GenObjects }

-----------------------------------------------------------------------------
(* The processor on its own                                                *)

\* Lists of n articles told apart by their titles; the articles at the
\* positions in `scored` already carry a score (search results do).
ProcessorList(n, scored) ==
    [i \in 1..n |-> IF i \in scored
                    THEN [title |-> ToString(i - 1), score |-> 5]
                    ELSE [title |-> ToString(i - 1)]]

\* what a search result may carry under raw_content (the request of line 69
\* asks for it): the page's text, or null when there is none
RawContents == { JStr(<< "t" >>), JNull }

\* the same lists, the last article carrying raw_content
ProcessorListRaw(n, raw) ==
    [i \in 1..n |-> IF i = n
                    THEN [title |-> ToString(i - 1), raw_content |-> raw]
                    ELSE [title |-> ToString(i - 1)]]

ProcessorLists ==
    { ProcessorList(n, scored) : n \in 0..MaxArticles,
                                 scored \in SUBSET (1..MaxArticles) }
    \cup { ProcessorListRaw(n, raw) : n \in 1..MaxArticles, raw \in RawContents }

Limits == { 0, 1, DefaultLimit }

InitProcessor ==
    /\ Idle
    /\ pc = "ready"
    /\ trusted_news_domains = << >>
    /\ all_results = << >>
    /\ filtered = << >>
    /\ articles = << >>

\* (each quantifier over inputs stands behind the guard of its action)
NextProcessor ==
    \/ /\ pc = "ready"
       /\ \E arts \in ProcessorLists : \E lim \in Limits :
              CallProcessArticles(arts, lim)
    \/ /\ pc = "scoring"
       /\ \E reply \in ScoreReplies : ScoreReply(reply)
    \/ /\ pc = "generating"
       /\ \E reply \in { [kind |-> "error"], Object(FullContent) } :
              GenReply(reply, "present")

SpecProcessor == InitProcessor /\ [][NextProcessor]_vars

-----------------------------------------------------------------------------
(* The whole program                                                       *)

PipelineArticle == [url |-> Url(<< "example.com", "/x" >>), title |-> "a"]

\* a result without page text: raw_content is null
PipelineNullArticle ==
    [url |-> Url(<< "example.com", "/n" >>), title |-> "n",
     raw_content |-> JNull]

PipelineResponses ==
    { [kind |-> "transport"],
      [kind |-> "ok", data |-> [results |-> << PipelineArticle >>]],
      [kind |-> "ok", data |-> [results |-> << PipelineNullArticle >>]] }

PipelineTrusted == { << >>, << << "other.com" >> >> }

PipelineScoreReplies ==
    { [kind |-> "error"], Object([scores |-> JList(<< Entry(0, 9) >>)]) }

Init ==
    /\ Idle
    /\ pc = "start"
    /\ trusted_news_domains = << >>
    /\ all_results = << >>
    /\ filtered = << >>
    /\ articles = << >>

Next ==
    \/ \E env_complete \in BOOLEAN : Main(env_complete)
    \/ \E keys_set \in BOOLEAN : \E trusted \in PipelineTrusted :
       \E sender \in { "", "bot@example.com" } :
       \E recipients \in { << >>, << "r1@example.com", "r2@example.com" >> } :
           Construct(keys_set, trusted, sender, recipients)
    \/ \E who \in { "search_news", "run_newsletter", "test_run" } :
           CallSearchNews(who)
    \/ \E q \in Queries : \E resp \in PipelineResponses : FetchForQuery(q, resp)
    \/ SearchNewsJoin
    \/ SearchNewsReturn
    \/ \E arts \in { << >>, << PipelineArticle >>, << PipelineNullArticle >> } :
       \E lim \in { 0, DefaultLimit } :
           CallProcessArticles(arts, lim)
    \/ \E reply \in PipelineScoreReplies : ScoreReply(reply)
    \/ \E reply \in GenReplies : \E template \in TemplateStates :
           GenReply(reply, template)
    \/ \E data \in GenObjects : \E template \in TemplateStates :
           CallSendNewsletter(data, template)
    \/ \E result \in ProviderResults : SendResult(result)

Spec == Init /\ [][Next]_vars

-----------------------------------------------------------------------------
(* Claims about the list functions (checked under SpecLists)               *)

\* the URLs carried by the articles of a list
DistinctUrls(list) ==
    { list[i].url : i \in { j \in 1..Len(list) : HasUrl(list[j]) } }

\* the position of the first article of the list carrying the url
FirstIndex(list, url) ==
    CHOOSE i \in 1..Len(list) :
        /\ HasUrl(list[i]) /\ list[i].url = url
        /\ \A j \in 1..(i - 1) : ~(HasUrl(list[j]) /\ list[j].url = url)

\* C1: _deduplicate, given n articles carrying k distinct URLs, returns
\* exactly k articles, each the first occurrence of its URL in the input,
\* in the input's relative order; no two returned articles share a url.
\* (An article with no url, or an empty one, carries no URL.)
C1_Deduplicate ==
    pc = "deduplicated" =>
        /\ Len(articles) = Cardinality(DistinctUrls(filtered))
        /\ \A j \in 1..Len(articles) :
              /\ HasUrl(articles[j])
              /\ articles[j].url \in DistinctUrls(filtered)
              /\ articles[j] = filtered[FirstIndex(filtered, articles[j].url)]
        /\ \A j, k \in 1..Len(articles) :
              j < k => /\ articles[j].url # articles[k].url
                       /\ FirstIndex(filtered, articles[j].url)
                            < FirstIndex(filtered, articles[k].url)

\* C1 witness: three articles in, two out; the one dropped repeats the url
\* of the first under another title, and an article of another url stands
\* between them.
C1_Witness ==
    /\ pc = "deduplicated"
    /\ Len(filtered) = 3 /\ Len(articles) = 2
    /\ HasUrl(filtered[1]) /\ HasUrl(filtered[2]) /\ HasUrl(filtered[3])
    /\ filtered[1].url = filtered[3].url
    /\ filtered[1].title # filtered[3].title
    /\ articles = << filtered[1], filtered[2] >>

\* C2 (as claimed): with a non-empty trusted list _filter_by_domain keeps an
\* article exactly when the host name of its URL, a leading 'www.' removed,
\* is in the list; with an empty list it keeps every article, in order.
C2_HostnameFilter ==
    pc \in { "filtered", "deduplicated" } =>
        IF trusted_news_domains = << >> THEN filtered = all_results
        ELSE filtered =
               SelectSeq(all_results,
                   LAMBDA a : /\ HasUrl(a)
                              /\ InList(StripWww(Hostname(Netloc(a.url))),
                                        trusted_news_domains))

-----------------------------------------------------------------------------
(* Claims about the concurrent search (checked under SpecCollector)        *)

\* the results of the queries that succeeded, in query order
RECURSIVE SucceededFrom(_, _)
SucceededFrom(resps, q) ==
    IF q > NQueries THEN << >>
    ELSE (IF resps[q].kind = "ok" /\ "results" \in DOMAIN resps[q].data
          THEN resps[q].data.results ELSE << >>)
         \o SucceededFrom(resps, q + 1)

Failed(resp) == resp.kind \in { "transport", "status" }

\* C3: whichever queries fail and in whatever order the requests complete,
\* search_news returns only once every query has finished, it returns
\* normally, a failed query has contributed nothing, and the batch is built
\* from the results of the succeeding queries merged in query order.
C3_PartialFailure ==
    /\ pc = "fetching" =>
          \A q \in Queries : Failed(responses[q]) => results_list[q] = << >>
    /\ pc = "done" =>
          /\ \A q \in Queries : responses[q] # InFlight
          /\ outcome.kind = "return"
          /\ all_results = SucceededFrom(responses, 1)
          /\ articles = Deduplicate(FilterByDomain(all_results,
                                                   trusted_news_domains))

\* C3 witness: the first query fails, the other two succeed with different
\* results, and the last query completed first; the batch holds the second
\* query's article before the third's.
C3_Witness ==
    /\ pc = "done"
    /\ Failed(responses[1])
    /\ responses[2].kind = "ok" /\ responses[3].kind = "ok"
    /\ order = << 3, 1, 2 >>
    /\ Len(results_list[2]) = 1 /\ Len(results_list[3]) = 1
    /\ Len(articles) = 2
    /\ articles[1] = results_list[2][1]
    /\ articles[2] = results_list[3][1]
    /\ articles[1] # articles[2]

-----------------------------------------------------------------------------
(* Claims about scoring (checked under SpecProcessor)                      *)

\* the scoring request has been answered
Scored == "kind" \in DOMAIN score_reply

\* the reply follows {"scores": [{"id", "score", "reason"}, ...]}, ids integers
WellFormedScores(reply) ==
    /\ reply.kind = "object"
    /\ "scores" \in DOMAIN reply.data
    /\ reply.data.scores.t = "list"
    /\ \A i \in 1..Len(reply.data.scores.items) :
          LET e == reply.data.scores.items[i] IN
          /\ e.t = "dict"
          /\ { "id", "score", "reason" } \subseteq DOMAIN e.d
          /\ e.d.id.t = "int"

\* the entries of a well-formed reply that speak of the article at position i
EntriesFor(reply, i) ==
    { k \in 1..Len(reply.data.scores.items) :
          reply.data.scores.items[k].d.id.n = i - 1 }

Covered(reply, i) == EntriesFor(reply, i) # {}

\* the score the claim gives the article at position i of the list as
\* received: the reply's (its last word on that index), 0 when not covered
ClaimedScore(reply, i) ==
    IF Covered(reply, i)
    THEN LET last == CHOOSE k \in EntriesFor(reply, i) :
                        \A m \in EntriesFor(reply, i) : m <= k
         IN  reply.data.scores.items[last].d.score
    ELSE 0

\* where an article stood in the list as received (titles tell articles apart)
PositionOf(article) ==
    CHOOSE i \in 1..Len(given) : given[i].title = article.title

\* C4 (as claimed): after a well-formed scoring reply every article carries
\* the score given for its index, an article the reply does not cover counts
\* as 0, and the list is in descending order of these scores, articles of
\* equal score in their original order.
C4_Ranking ==
    (api = "process_articles" /\ Scored /\ WellFormedScores(score_reply)) =>
        /\ Len(articles) = Len(given)
        /\ \A k \in 1..Len(articles) :
              Covered(score_reply, PositionOf(articles[k])) =>
                  /\ "score" \in DOMAIN articles[k]
                  /\ articles[k].score
                       = ClaimedScore(score_reply, PositionOf(articles[k]))
        /\ \A k, l \in 1..Len(articles) :
              k < l =>
                 LET pk == PositionOf(articles[k])
                     pl == PositionOf(articles[l])
                 IN  \/ ClaimedScore(score_reply, pk) > ClaimedScore(score_reply, pl)
                     \/ /\ ClaimedScore(score_reply, pk) = ClaimedScore(score_reply, pl)
                        /\ pk < pl

\* C5 (as claimed): when the scoring call fails or its reply is malformed,
\* process_articles does not fail and the list handed to generation is the
\* first `limit` articles of the list as received, in the original order,
\* no score or reason added to any article.
C5_ScoringFallback ==
    (api = "process_articles" /\ Scored /\ ~WellFormedScores(score_reply)) =>
        /\ outcome.kind # "raise"
        /\ articles = given
        /\ top_articles = SliceTo(given, limit)
        /\ (top_articles # << >> =>
               Len(llm_calls) = 2 /\ llm_calls[2] = "generate")

-----------------------------------------------------------------------------
(* Claims about the whole run (checked under Spec)                         *)

\* the generation request has been answered
Generated == "kind" \in DOMAIN gen_reply

FourFields ==
    { "opening_hook", "top_stories", "tool_of_the_day", "closing_thought" }

\* the reply is an object with the four fields, top_stories a list
MatchesSchema(reply) ==
    /\ reply.kind = "object"
    /\ FourFields \subseteq DOMAIN reply.data
    /\ reply.data.top_stories.t = "list"

StoppedWithoutEmail ==
    /\ pc = "done"
    /\ outcome = [kind |-> "return", value |-> "False"]
    /\ deliveries = << >>

\* C6 (as claimed): whenever the generation call fails or its reply does not
\* match the four-field schema, process_articles returns the empty result
\* and a delivery run stops with failure, no email delivered.
C6_NoNewsletterOnBadReply ==
    (Generated /\ ~MatchesSchema(gen_reply)) =>
        /\ newsletter_data = EmptyDict
        /\ (api = "run_newsletter" => StoppedWithoutEmail)

\* C7: in a delivery run, if search_news returns an empty list then
\* run_newsletter returns False without raising, and neither the processor
\* (no model call) nor the emailer (no delivery call) is invoked.
C7_EmptyInput ==
    (api = "run_newsletter" /\ pc \notin { "ready", "fetching", "closing" }
        /\ articles = << >>) =>
        /\ pc = "done"
        /\ outcome = [kind |-> "return", value |-> "False"]
        /\ invoked = << "search_news" >>
        /\ llm_calls = << >>
        /\ deliveries = << >>

\* C7 witness: a delivery run has ended on an empty batch although a query
\* succeeded: the trusted-domain filter dropped its article.
C7_Witness ==
    /\ api = "run_newsletter"
    /\ pc = "done"
    /\ all_results # << >>
    /\ articles = << >>
    /\ outcome = [kind |-> "return", value |-> "False"]

\* send_newsletter was the last stage invoked
SendInvoked ==
    invoked # << >> /\ invoked[Len(invoked)] = "send_newsletter"

\* C8: send_newsletter returns False and makes no call to the provider
\* whenever the sender is unset, the recipient list is empty, or the content
\* is empty or lacks top_stories.
C8_SendPrecondition ==
    ( /\ SendInvoked
      /\ \/ from_email = ""
         \/ to_emails = << >>
         \/ newsletter_data = EmptyDict
         \/ "top_stories" \notin DOMAIN newsletter_data )
    => /\ pc = "done"
       /\ deliveries = << >>
       /\ outcome.kind = "return"
       /\ outcome.value = "False"

\* C8 witness: send_newsletter, called with full content and a sender but no
\* recipient, has returned False and delivered nothing.
C8_Witness ==
    /\ api = "send_newsletter"
    /\ SendInvoked
    /\ pc = "done"
    /\ from_email # "" /\ to_emails = << >>
    /\ newsletter_data = FullContent
    /\ outcome = [kind |-> "return", value |-> "False"]
    /\ deliveries = << >>

\* C9 (as claimed): no unexpected exception leaves the orchestrator or the
\* entry point, in either mode.
C9_NoUncaughtException ==
    /\ exit_status # "uncaught exception"
    /\ api \in { "run_newsletter", "test_run" } => outcome.kind # "raise"

\* C10 (as claimed): when sender and recipients are set and the content
\* contains top_stories, send_newsletter makes exactly one call to the
\* provider, carrying sender, all recipients, subject, HTML and text; it
\* returns True if the call succeeds and False if the provider fails, and
\* raises nothing.
C10_DeliveryOutcome ==
    ( /\ SendInvoked
      /\ from_email # "" /\ to_emails # << >>
      /\ newsletter_data # EmptyDict
      /\ "top_stories" \in DOMAIN newsletter_data )
    => /\ Len(deliveries) = 1
       /\ deliveries[1].payload.from = from_email
       /\ deliveries[1].payload.to = to_emails
       /\ deliveries[1].payload.subject = Subject
       /\ { "html", "text" } \subseteq DOMAIN deliveries[1].payload
       /\ pc = "done" =>
             /\ outcome.kind = "return"
             /\ outcome.value
                  = (IF deliveries[1].result = "accepted" THEN "True" ELSE "False")

\* the first min(limit, n) articles of the ranked list
Selection ==
    [i \in 1..(IF limit < Len(articles) THEN limit ELSE Len(articles))
        |-> articles[i]]

\* C11: for a ranked list of n articles and a limit >= 0, process_articles
\* passes exactly the first min(limit, n) articles of the ranked list to
\* newsletter generation; if that selection is empty (limit 0 or empty
\* input) it returns the empty result without making the generation call.
C11_TopK ==
    ( /\ api = "process_articles" /\ pc \in { "generating", "done" }
      /\ limit >= 0
      /\ (Scored \/ given = << >>) )
    => /\ top_articles = Selection
       /\ IF Selection = << >>
          THEN /\ pc = "done"
               /\ newsletter_data = EmptyDict
               /\ outcome = [kind |-> "return", value |-> "dict"]
               /\ \A i \in 1..Len(llm_calls) : llm_calls[i] # "generate"
          ELSE /\ llm_calls = << "score", "generate" >>
               /\ (pc = "done" /\ gen_reply.kind = "object") =>
                      newsletter_data.original_articles = Selection

\* C11 witness: three articles, re-ranked by the scoring reply, limit 1:
\* generation received the first ranked article only and returned content.
C11_Witness ==
    /\ api = "process_articles"
    /\ pc = "done"
    /\ Len(articles) = 3 /\ limit = 1
    /\ articles # given
    /\ Generated /\ gen_reply.kind = "object"
    /\ newsletter_data.original_articles = << articles[1] >>

-----------------------------------------------------------------------------
(* Claim about the collector's stage order (checked under SpecCollector)   *)

\* the per-query results merged in query order, deduplicated by exact URL
\* (first occurrence kept), and then passed through the trusted-domain filter
DedupThenFilter ==
    FilterByDomain(Deduplicate(SucceededFrom(responses, 1)),
                   trusted_news_domains)

\* C12: for every combination of per-query results and trusted-domain set,
\* the batch search_news returns equals the per-query results merged in query
\* order, deduplicated by exact URL keeping the first occurrence, and then
\* filtered by trusted domain.
C12_StageOrder ==
    (api = "search_news" /\ pc = "done") =>
        /\ outcome = [kind |-> "return", value |-> "list"]
        /\ articles = DedupThenFilter

\* C12 witness: search_news has returned with a trusted domain configured;
\* the merge held an untrusted article and the same URL twice, so both the
\* filter and the deduplication removed something and an article is left.
C12_Witness ==
    /\ api = "search_news" /\ pc = "done"
    /\ trusted_news_domains # << >>
    /\ Len(all_results) > Len(filtered)
    /\ Len(filtered) > Len(articles)
    /\ Len(articles) > 0
    /\ Len(Deduplicate(all_results)) > Len(articles)

====
